---- MODULE Spec2Model ----
(***************************************************************************)
(* Arena-based red-black tree of chapter-15/rb-tree: the RedBlackTree      *)
(* engine (rb_tree.rs) over the RepoNode store (lib.rs, repo.rs) of Node   *)
(* records (node.rs).  Every public call (insert, delete, find,            *)
(* walk_in_order) is one atomic action.                                    *)
(***************************************************************************)
EXTENDS Integers, Sequences, FiniteSets

\* ---------------------------------------------------------------- bounds
MaxId == 8          \* insert is disabled once id_counter reaches MaxId
MaxKey == 2         \* keys are drawn from 1..MaxKey

Keys == 1..MaxKey
Fuel == 2 * MaxId + 4   \* more iterations than any loop over an acyclic tree needs

\* DefaultId = u32, scaled to IdWidth bits so that its largest value is in reach
IdWidth == 4
IdModulus == 2 ^ IdWidth
IdMax == IdModulus - 1
MaxLive == 2        \* InsertLive keeps at most MaxLive nodes in the tree
MaxFarId == 10      \* InsertFar is disabled once id_counter reaches MaxFarId

\* ---------------------------------------------------------------- values
NONE == -1          \* Option::None for an identifier
ABORT == -2         \* a lookup whose unwrap() panicked
DIVERGE == -3       \* a loop that did not end within Fuel iterations

RED == "Red"
BLACK == "Black"

VARIABLES id_counter, root, length, repo, fail,
          op, arg, ret, visited, ins, del, pre

vars == <<id_counter, root, length, repo, fail, op, arg, ret, visited, ins, del, pre>>

\* The tree engine together with its store, as one value the operations thread.
\* fail is "ok" while the process runs, otherwise the reason it aborted.
Cur == [id_counter |-> id_counter, root |-> root, length |-> length,
        store |-> repo, fail |-> fail]

EmptyStore == [i \in {} |-> 0]

Abort(t, why) == IF t.fail = "ok" THEN [t EXCEPT !.fail = why] ELSE t

\* ---------------------------------------------------------------- node.rs
NewNode(id, key) == [id |-> id, color |-> RED, key |-> key,
                     parent |-> NONE, left |-> NONE, right |-> NONE]

\* the comparison turned round
node_lt_reversed(a, b) == a.key > b.key

node_lt(a, b) == a.key < b.key

\* ---------------------------------------------------------------- lib.rs / repo.rs
Has(t, id) == id \in DOMAIN t.store

add(t, id, key) ==
    [t EXCEPT !.store = [x \in (DOMAIN t.store) \cup {id} |->
                            IF x = id THEN NewNode(id, key) ELSE t.store[x]]]

\* the record stays in the store
remove_nothing(t, id) == t

remove(t, id) ==
    [t EXCEPT !.store = [x \in (DOMAIN t.store) \ {id} |-> t.store[x]]]

get_parent(t, n) ==
    IF Has(t, n) /\ Has(t, t.store[n].parent) THEN t.store[n].parent ELSE NONE

get_left(t, n) ==
    IF Has(t, n) /\ Has(t, t.store[n].left) THEN t.store[n].left ELSE NONE

get_right(t, n) ==
    IF Has(t, n) /\ Has(t, t.store[n].right) THEN t.store[n].right ELSE NONE

\* get_mut(id).map(|n| n.set_..(..)): nothing happens when id is absent
set_color(t, id, c) == IF Has(t, id) THEN [t EXCEPT !.store[id].color = c] ELSE t
set_parent(t, id, p) == IF Has(t, id) THEN [t EXCEPT !.store[id].parent = p] ELSE t
set_left_child(t, id, c) == IF Has(t, id) THEN [t EXCEPT !.store[id].left = c] ELSE t
set_right_child(t, id, c) == IF Has(t, id) THEN [t EXCEPT !.store[id].right = c] ELSE t
set_key(t, id, k) == IF Has(t, id) THEN [t EXCEPT !.store[id].key = k] ELSE t

\* get_mut(id).unwrap().set_..(..): panics when id is absent
must_set_color(t, id, c) ==
    IF Has(t, id) THEN [t EXCEPT !.store[id].color = c] ELSE Abort(t, "unwrap")
must_set_parent(t, id, p) ==
    IF Has(t, id) THEN [t EXCEPT !.store[id].parent = p] ELSE Abort(t, "unwrap")
must_set_left_child(t, id, c) ==
    IF Has(t, id) THEN [t EXCEPT !.store[id].left = c] ELSE Abort(t, "unwrap")
must_set_right_child(t, id, c) ==
    IF Has(t, id) THEN [t EXCEPT !.store[id].right = c] ELSE Abort(t, "unwrap")

mut_parent_set_color(t, n, c) == set_color(t, get_parent(t, n), c)

\* ---------------------------------------------------------------- sequencing
\* let v = ..; the rest of the function body
With(v, F(_)) == F(v)

\* the next statement runs only while the process has not panicked
Bind(t, F(_)) == IF t.fail # "ok" THEN t ELSE F(t)

\* an Option<NodeColor> handed back together with the tree: id = NONE is None
Res(t, id, color) == [t |-> t, id |-> id, color |-> color]

BindRes(t, F(_)) == IF t.fail # "ok" THEN Res(t, NONE, BLACK) ELSE F(t)

\* ---------------------------------------------------------------- rb_tree.rs
not_rotation(r) == IF r = "Left" THEN "Right" ELSE "Left"

\* the counter is left where it is
get_id_stuck(t, overflow_checks) == t

\* self.id_counter += 1 on a u32: at the largest value a build with overflow
\* checks panics, a build without them wraps to 0
get_id(t, overflow_checks) ==
    IF t.id_counter = IdMax
    THEN IF overflow_checks THEN Abort(t, "overflow") ELSE [t EXCEPT !.id_counter = 0]
    ELSE [t EXCEPT !.id_counter = t.id_counter + 1]

inc_len(t) == [t EXCEPT !.length = t.length + 1]

\* the decrement left out
dec_len_skipped(t) == t

dec_len(t) ==
    IF t.length = 0 THEN Abort(t, "overflow") ELSE [t EXCEPT !.length = t.length - 1]

\* is_left of node_is_child: "yes", "no", or "abort" when the left link dangles
is_left_child(t, p, node) ==
    IF t.store[p].left = NONE THEN "no"
    ELSE IF ~Has(t, t.store[p].left) THEN "abort"
    ELSE IF t.store[t.store[p].left].id = node THEN "yes" ELSE "no"

\* "Left", "Right", "None", or "Abort" when the parent's left link dangles
node_is_child(t, node) ==
    With(get_parent(t, node), LAMBDA p :
        IF p = NONE THEN "None"
        ELSE With(is_left_child(t, p, node), LAMBDA l :
            IF l = "abort" THEN "Abort" ELSE IF l = "yes" THEN "Left" ELSE "Right"))

\* the descent takes the wrong side
RECURSIVE find_node_loop_swapped(_, _, _, _)
find_node_loop_swapped(t, current, value, fuel) ==
    IF current = NONE THEN NONE
    ELSE IF fuel = 0 THEN DIVERGE
    ELSE IF ~Has(t, current) THEN NONE
    ELSE IF t.store[current].key = value THEN current
    ELSE IF value < t.store[current].key
         THEN find_node_loop_swapped(t, t.store[current].right, value, fuel - 1)
         ELSE find_node_loop_swapped(t, t.store[current].left, value, fuel - 1)

RECURSIVE find_node_loop(_, _, _, _)
find_node_loop(t, current, value, fuel) ==
    IF current = NONE THEN NONE
    ELSE IF fuel = 0 THEN DIVERGE
    ELSE IF ~Has(t, current) THEN NONE
    ELSE IF t.store[current].key = value THEN current
    ELSE IF value < t.store[current].key
         THEN find_node_loop(t, t.store[current].left, value, fuel - 1)
         ELSE find_node_loop(t, t.store[current].right, value, fuel - 1)

find_node(t, value) == find_node_loop(t, t.root, value, Fuel)

Found(t, r) == [t |-> t, ret |-> r]

\* the node found is moved to the root field
find_moves_root(t, value) ==
    With(find_node(t, value), LAMBDA node :
        Found(IF node >= 0 THEN [t EXCEPT !.root = node] ELSE t, node))

\* [t, ret]: ret is the Option handed to the callback; &self and &R leave t alone
find(t, value) == Found(t, find_node(t, value))

Stopped(w) == w # <<>> /\ w[Len(w)] < NONE

\* the identifiers visited, in order; ABORT ends the sequence where unwrap() panics
RECURSIVE go_walk_in_order(_, _, _)
go_walk_in_order(t, node, fuel) ==
    IF node = NONE THEN <<>>
    ELSE IF fuel = 0 THEN <<DIVERGE>>
    ELSE IF ~Has(t, node) THEN <<ABORT>>
    ELSE With(go_walk_in_order(t, t.store[node].left, fuel - 1), LAMBDA l :
            IF Stopped(l) THEN l
            ELSE l \o <<node>> \o go_walk_in_order(t, t.store[node].right, fuel - 1))

walk_in_order(t) == go_walk_in_order(t, t.root, Fuel)

\* the descent goes left on less-or-equal
RECURSIVE find_parent_loop_le(_, _, _, _, _)
find_parent_loop_le(t, current, parent, new_node, fuel) ==
    IF current = NONE THEN parent
    ELSE IF fuel = 0 THEN DIVERGE
    ELSE IF ~Has(t, current) THEN ABORT
    ELSE IF ~node_lt(t.store[current], t.store[new_node])
         THEN find_parent_loop_le(t, t.store[current].left, current, new_node, fuel - 1)
         ELSE find_parent_loop_le(t, t.store[current].right, current, new_node, fuel - 1)

RECURSIVE find_parent_loop(_, _, _, _, _)
find_parent_loop(t, current, parent, new_node, fuel) ==
    IF current = NONE THEN parent
    ELSE IF fuel = 0 THEN DIVERGE
    ELSE IF ~Has(t, current) THEN ABORT
    ELSE IF node_lt(t.store[new_node], t.store[current])
         THEN find_parent_loop(t, t.store[current].left, current, new_node, fuel - 1)
         ELSE find_parent_loop(t, t.store[current].right, current, new_node, fuel - 1)

find_parent(t, current, new_node) ==
    IF ~Has(t, new_node) THEN ABORT
    ELSE find_parent_loop(t, current, NONE, new_node, Fuel)

find_uncle(t, node) ==
    With(get_parent(t, get_parent(t, node)), LAMBDA grand_parent :
        IF grand_parent = NONE THEN NONE
        ELSE With(node_is_child(t, get_parent(t, node)), LAMBDA c :
            IF c = "Abort" THEN ABORT
            ELSE IF c = "Right" THEN t.store[grand_parent].left
            ELSE IF c = "Left" THEN t.store[grand_parent].right
            ELSE NONE))

uncle_is_red(t, uncle) ==
    IF uncle = NONE THEN FALSE
    ELSE IF Has(t, uncle) THEN t.store[uncle].color = RED ELSE FALSE

\* the rotation goes toward the child's own side
get_rotation_same(child) == child

get_rotation(child) == IF child = "Left" THEN "Right" ELSE "Left"

Relative(ok, parent, child, grandchild) ==
    [ok |-> ok, parent |-> parent, child |-> child, grandchild |-> grandchild]

\* ok is FALSE when one of the unwrap() calls panics
get_relatives(t, node, rot) ==
    IF ~Has(t, node) THEN Relative(FALSE, NONE, NONE, NONE)
    ELSE IF rot = "Left"
    THEN IF t.store[node].right = NONE THEN Relative(FALSE, NONE, NONE, NONE)
         ELSE Relative(TRUE, t.store[node].parent, t.store[node].right,
                       get_left(t, t.store[node].right))
    ELSE IF t.store[node].left = NONE THEN Relative(FALSE, NONE, NONE, NONE)
         ELSE Relative(TRUE, t.store[node].parent, t.store[node].left,
                       get_right(t, t.store[node].left))

\* rotate, lines 370-388: the former parent (or the root) now names the child
rotate_link_parent(t, current, rel) ==
    IF rel.parent = NONE THEN [t EXCEPT !.root = rel.child]
    ELSE With(node_is_child(t, current), LAMBDA node_is :
        IF node_is = "Abort" \/ ~Has(t, rel.parent) THEN Abort(t, "unwrap")
        ELSE IF node_is = "Left" THEN set_left_child(t, rel.parent, rel.child)
        ELSE IF node_is = "Right" THEN set_right_child(t, rel.parent, rel.child)
        ELSE Abort(t, "unreachable"))

\* the grandchild's parent field is not written
rotate_move_grandchild_orphan(t, current, rotation, rel) ==
    With(IF rotation = "Left" THEN set_right_child(t, current, rel.grandchild)
         ELSE set_left_child(t, current, rel.grandchild), LAMBDA t1 :
        set_parent(t1, rel.child, rel.parent))

\* rotate, lines 345-368: the grandchild moves under current
rotate_move_grandchild(t, current, rotation, rel) ==
    With(IF rotation = "Left" THEN set_right_child(t, current, rel.grandchild)
         ELSE set_left_child(t, current, rel.grandchild), LAMBDA t1 :
        set_parent(IF rel.grandchild = NONE THEN t1
                   ELSE set_parent(t1, rel.grandchild, current),
                   rel.child, rel.parent))

\* current keeps its old parent field
rotate_link_child_keeps_parent(t, current, rotation, rel) ==
    IF rotation = "Right" THEN set_right_child(t, rel.child, current)
    ELSE set_left_child(t, rel.child, current)

\* rotate, lines 390-405: current becomes the child's child
rotate_link_child(t, current, rotation, rel) ==
    set_parent(IF rotation = "Right" THEN set_right_child(t, rel.child, current)
               ELSE set_left_child(t, rel.child, current),
               current, rel.child)

rotate(t, current, rotation) ==
    Bind(t, LAMBDA t0 :
    With(get_relatives(t0, current, rotation), LAMBDA rel :
        IF ~rel.ok THEN Abort(t0, "unwrap")
        ELSE Bind(rotate_link_parent(rotate_move_grandchild(t0, current, rotation, rel),
                                     current, rel),
                  LAMBDA t4 : rotate_link_child(t4, current, rotation, rel))))

\* insert_fixup_subtree, lines 256-262: the uncle is Red
insert_fixup_recolor(t, parent_id, uncle) ==
    BindRes(must_set_color(must_set_color(t, parent_id, BLACK), uncle, BLACK), LAMBDA t2 :
    With(get_parent(t2, parent_id), LAMBDA grandparent_id :
        IF grandparent_id = NONE THEN Res(Abort(t2, "unwrap"), NONE, BLACK)
        ELSE Res(must_set_color(t2, grandparent_id, RED), grandparent_id, BLACK)))

\* after the rotation at the parent the loop is told to stop
insert_fixup_rotate_once(t, parent_id, child) ==
    With(node_is_child(t, parent_id), LAMBDA parent_is_child :
    BindRes(IF parent_is_child = "Abort" THEN Abort(t, "unwrap")
            ELSE IF parent_is_child # "None" /\ child = parent_is_child
            THEN With(get_parent(t, parent_id), LAMBDA rotate_id :
                 Bind(must_set_color(mut_parent_set_color(t, parent_id, RED),
                                     parent_id, BLACK), LAMBDA t2 :
                      IF rotate_id = NONE THEN Abort(t2, "unwrap")
                      ELSE rotate(t2, rotate_id, get_rotation(child))))
            ELSE rotate(t, parent_id, get_rotation(child)),
        LAMBDA t3 :
            IF ~Has(t3, parent_id) THEN Res(Abort(t3, "unwrap"), NONE, BLACK)
            ELSE Res(t3, parent_id, BLACK)))

\* insert_fixup_subtree, lines 263-280: the uncle is Black or absent
insert_fixup_rotate(t, parent_id, child) ==
    With(node_is_child(t, parent_id), LAMBDA parent_is_child :
    BindRes(IF parent_is_child = "Abort" THEN Abort(t, "unwrap")
            ELSE IF parent_is_child # "None" /\ child = parent_is_child
            THEN With(get_parent(t, parent_id), LAMBDA rotate_id :
                 Bind(must_set_color(mut_parent_set_color(t, parent_id, RED),
                                     parent_id, BLACK), LAMBDA t2 :
                      IF rotate_id = NONE THEN Abort(t2, "unwrap")
                      ELSE rotate(t2, rotate_id, get_rotation(child))))
            ELSE rotate(t, parent_id, get_rotation(child)),
        LAMBDA t3 :
            IF ~Has(t3, parent_id) THEN Res(Abort(t3, "unwrap"), NONE, BLACK)
            ELSE Res(t3, parent_id, t3.store[parent_id].color)))

insert_fixup_subtree(t, current_id, child) ==
    With(get_parent(t, current_id), LAMBDA parent_id :
        IF parent_id = NONE THEN Res(t, NONE, BLACK)
        ELSE With(find_uncle(t, current_id), LAMBDA uncle :
            IF uncle = ABORT THEN Res(Abort(t, "unwrap"), NONE, BLACK)
            ELSE IF uncle_is_red(t, uncle) THEN insert_fixup_recolor(t, parent_id, uncle)
            ELSE insert_fixup_rotate(t, parent_id, child)))

RECURSIVE insert_fixup_loop(_, _, _, _)
insert_fixup_loop(t, node_id, color, fuel) ==
    IF node_id = NONE \/ t.fail # "ok" THEN t
    ELSE IF fuel = 0 THEN Abort(t, "diverge")
    ELSE IF color = BLACK THEN t
    ELSE With(get_parent(t, node_id), LAMBDA parent :
        IF parent = NONE THEN t
        ELSE IF t.store[parent].color = RED
        THEN With(node_is_child(t, node_id), LAMBDA child :
             IF child = "Abort" \/ child = "None" THEN Abort(t, "unwrap")
             ELSE With(insert_fixup_subtree(t, node_id, child), LAMBDA r :
                  insert_fixup_loop(r.t, r.id, r.color, fuel - 1)))
        ELSE t)

\* the root is not forced Black at the end
insert_fixup_leaves_root(t, inserted) ==
    IF Has(t, inserted)
    THEN insert_fixup_loop(t, inserted, t.store[inserted].color, Fuel)
    ELSE t

insert_fixup(t, inserted) ==
    Bind(IF Has(t, inserted)
         THEN insert_fixup_loop(t, inserted, t.store[inserted].color, Fuel)
         ELSE t,
         LAMBDA t1 : IF t1.root # NONE THEN must_set_color(t1, t1.root, BLACK) ELSE t1)

\* insert, lines 108-130: the new record is linked under the parent found
insert_link(t, new_id) ==
    IF t.root = NONE THEN [t EXCEPT !.root = new_id]
    ELSE With(find_parent(t, t.root, new_id), LAMBDA parent :
        IF parent = ABORT THEN Abort(t, "unwrap")
        ELSE IF parent = DIVERGE THEN Abort(t, "diverge")
        ELSE With(set_parent(t, new_id, parent), LAMBDA t1 :
             IF parent = NONE THEN t1
             ELSE IF ~Has(t1, new_id) \/ ~Has(t1, parent) THEN Abort(t1, "unwrap")
             ELSE IF t1.store[new_id].key < t1.store[parent].key
                  THEN set_left_child(t1, parent, new_id)
                  ELSE set_right_child(t1, parent, new_id)))

insert(t, value, overflow_checks) ==
    Bind(get_id(t, overflow_checks), LAMBDA t0 :
    Bind(insert_link(add(t0, t0.id_counter, value), t0.id_counter), LAMBDA t2 :
    Bind(insert_fixup(t2, t0.id_counter), LAMBDA t3 : inc_len(t3))))

\* ---------------------------------------------------------------- delete
\* the root is left alone when the removable node has no parent
replace_keeps_root(t, removable, replacement) ==
    With(get_parent(t, removable), LAMBDA parent_id :
    Bind(IF parent_id = NONE THEN t
         ELSE IF get_left(t, parent_id) = removable
              THEN must_set_left_child(t, parent_id, replacement)
              ELSE must_set_right_child(t, parent_id, replacement),
         LAMBDA t1 : IF replacement # NONE
                     THEN must_set_parent(t1, replacement, parent_id)
                     ELSE t1))

\* the replacement's parent field is not updated
replace_keeps_parent(t, removable, replacement) ==
    With(get_parent(t, removable), LAMBDA parent_id :
        IF parent_id = NONE THEN [t EXCEPT !.root = replacement]
        ELSE IF get_left(t, parent_id) = removable
             THEN must_set_left_child(t, parent_id, replacement)
             ELSE must_set_right_child(t, parent_id, replacement))

replace(t, removable, replacement) ==
    With(get_parent(t, removable), LAMBDA parent_id :
    Bind(IF parent_id = NONE THEN [t EXCEPT !.root = replacement]
         ELSE IF get_left(t, parent_id) = removable
              THEN must_set_left_child(t, parent_id, replacement)
              ELSE must_set_right_child(t, parent_id, replacement),
         LAMBDA t1 : IF replacement # NONE
                     THEN must_set_parent(t1, replacement, parent_id)
                     ELSE t1))

get_if_one_child(t, node) ==
    IF get_left(t, node) = NONE THEN get_right(t, node)
    ELSE IF get_right(t, node) = NONE THEN get_left(t, node)
    ELSE NONE

RECURSIVE tree_minimum_loop(_, _, _, _)
tree_minimum_loop(t, node, result, fuel) ==
    IF node = NONE THEN result
    ELSE IF fuel = 0 THEN DIVERGE
    ELSE tree_minimum_loop(t, get_left(t, node), node, fuel - 1)

tree_minimum(t, node) ==
    IF node = NONE THEN NONE
    ELSE tree_minimum_loop(t, IF Has(t, node) THEN node ELSE NONE, NONE, Fuel)

\* <<near, far>> nephews, or <<ABORT>> when the sibling is not in the store
childrens(t, node, first_child) ==
    IF node = NONE THEN <<NONE, NONE>>
    ELSE IF ~Has(t, node) THEN <<ABORT>>
    ELSE IF first_child = "Left"
         THEN <<t.store[node].left, t.store[node].right>>
         ELSE <<t.store[node].right, t.store[node].left>>

any_colors(t, nodes, color) ==
    \E i \in 1..Len(nodes) :
        /\ nodes[i] # NONE
        /\ Has(t, nodes[i])
        /\ t.store[nodes[i]].color = color

\* the Option<NodeColor> of an Option<id> resolved through the store
node_color(t, id) ==
    IF id # NONE /\ Has(t, id) THEN Res(t, id, t.store[id].color)
    ELSE Res(t, NONE, BLACK)

\* the sibling is not looked up again after the rotation
fixup_red_sibling_stale(t, node, parent_id, sibling, rotation, node_is) ==
    IF sibling.id = NONE THEN [t |-> t, sibling |-> NONE]
    ELSE IF sibling.color = RED
    THEN With(rotate(mut_parent_set_color(set_color(t, sibling.id, BLACK), node, RED),
                     parent_id, rotation), LAMBDA t3 :
            [t |-> t3, sibling |-> sibling.id])
    ELSE [t |-> t, sibling |-> sibling.id]

\* delete_fixup_subtree, lines 548-564: [t, sibling], the sibling after the
\* Red-sibling step (an identifier or NONE)
fixup_red_sibling(t, node, parent_id, sibling, rotation, node_is) ==
    IF sibling.id = NONE THEN [t |-> t, sibling |-> NONE]
    ELSE IF sibling.color = RED
    THEN With(rotate(mut_parent_set_color(set_color(t, sibling.id, BLACK), node, RED),
                     parent_id, rotation), LAMBDA t3 :
            [t |-> t3,
             sibling |-> IF node_is = "Left" THEN get_right(t3, parent_id)
                         ELSE get_left(t3, parent_id)])
    ELSE [t |-> t, sibling |-> sibling.id]

\* delete_fixup_subtree, lines 582-602: [t, sibling] after the nephew recoloring
fixup_nephews(t, parent_id, sibling, nephews, rotation, node_is) ==
    IF any_colors(t, <<nephews[2]>>, BLACK)
    THEN With(IF nephews[1] # NONE THEN set_color(t, nephews[1], BLACK) ELSE t, LAMBDA a :
         With(IF sibling # NONE
              THEN rotate(set_color(a, sibling, RED), sibling, not_rotation(rotation))
              ELSE a, LAMBDA t1 :
            [t |-> t1,
             sibling |-> IF ~Has(t1, parent_id) THEN NONE
                         ELSE IF node_is = "Left" THEN t1.store[parent_id].right
                         ELSE t1.store[parent_id].left]))
    ELSE IF nephews[2] # NONE
         THEN [t |-> set_color(t, nephews[2], BLACK), sibling |-> sibling]
         ELSE [t |-> t, sibling |-> sibling]

\* delete_fixup_subtree, lines 576-610: at least one nephew is Red
fixup_red_nephew(t, node, parent_id, sibling, nephews, rotation, node_is) ==
    With(fixup_nephews(t, parent_id, sibling, nephews, rotation, node_is), LAMBDA s :
    BindRes(s.t, LAMBDA t1 :
        IF ~Has(t1, parent_id) THEN Res(Abort(t1, "unwrap"), NONE, BLACK)
        ELSE With(rotate(mut_parent_set_color(
                             IF s.sibling # NONE
                             THEN set_color(t1, s.sibling, t1.store[parent_id].color)
                             ELSE t1,
                             node, BLACK),
                         parent_id, rotation), LAMBDA t4 :
                node_color(t4, t4.root))))

\* the loop is handed the same node again instead of its parent
fixup_black_nephews_stays(t, node, sibling) ==
    With(IF sibling # NONE THEN set_color(t, sibling, RED) ELSE t, LAMBDA t1 :
        node_color(t1, node))

\* delete_fixup_subtree, lines 566-575: no nephew is Red
fixup_black_nephews(t, node, sibling) ==
    With(IF sibling # NONE THEN set_color(t, sibling, RED) ELSE t, LAMBDA t1 :
        node_color(t1, get_parent(t1, node)))

delete_fixup_subtree(t, node, sibling, rotation, node_is) ==
    With(get_parent(t, node), LAMBDA parent_id :
    IF parent_id = NONE THEN Res(Abort(t, "unwrap"), NONE, BLACK)
    ELSE With(fixup_red_sibling(t, node, parent_id, sibling, rotation, node_is), LAMBDA s :
         BindRes(s.t, LAMBDA t1 :
         With(childrens(t1, s.sibling, node_is), LAMBDA nephews :
            IF nephews = <<ABORT>> THEN Res(Abort(t1, "unwrap"), NONE, BLACK)
            ELSE IF ~any_colors(t1, nephews, RED)
            THEN fixup_black_nephews(t1, node, s.sibling)
            ELSE fixup_red_nephew(t1, node, parent_id, s.sibling, nephews,
                                  rotation, node_is)))))

RECURSIVE delete_fixup_loop(_, _, _, _)
delete_fixup_loop(t, id, color, fuel) ==
    IF id = NONE \/ t.fail # "ok" THEN t
    ELSE IF fuel = 0 THEN Abort(t, "diverge")
    ELSE IF t.root = NONE THEN Abort(t, "unwrap")
    ELSE IF id # t.root /\ color = BLACK
    THEN With(node_is_child(t, id), LAMBDA child :
         IF child = "Abort" THEN Abort(t, "unwrap")
         ELSE IF child = "None" THEN Abort(t, "unreachable")
         ELSE With(delete_fixup_subtree(t, id,
                       node_color(t, IF child = "Left"
                                     THEN get_right(t, get_parent(t, id))
                                     ELSE get_left(t, get_parent(t, id))),
                       IF child = "Left" THEN "Left" ELSE "Right", child), LAMBDA r :
              delete_fixup_loop(r.t, r.id, r.color, fuel - 1)))
    ELSE IF color = RED THEN set_color(t, id, BLACK) ELSE t

\* a Red replacement is left Red
delete_fixup_keeps_red(t, node) ==
    With(node_color(t, node), LAMBDA n :
    Bind(IF n.color = RED THEN t ELSE delete_fixup_loop(t, n.id, n.color, Fuel),
         LAMBDA t1 : IF t1.root # NONE THEN set_color(t1, t1.root, BLACK) ELSE t1))

delete_fixup(t, node) ==
    With(node_color(t, node), LAMBDA n :
    Bind(delete_fixup_loop(t, n.id, n.color, Fuel), LAMBDA t1 :
        IF t1.root # NONE THEN set_color(t1, t1.root, BLACK) ELSE t1))

Spliced(t, id, color, replaced) ==
    [t |-> t, id |-> id, color |-> color, replaced |-> replaced]

\* the successor's key is not copied into the found node
delete_successor_keeps_key(t, found, replaced_id) ==
    With(get_right(t, replaced_id), LAMBDA replaced_child_id :
        Spliced(replace(t, replaced_id, replaced_child_id), replaced_id,
                t.store[replaced_id].color, replaced_child_id))

\* the record handed on for removal is the found node, not its successor
delete_successor_removes_found(t, found, replaced_id) ==
    With(set_key(t, found, t.store[replaced_id].key), LAMBDA t1 :
    With(get_right(t1, replaced_id), LAMBDA replaced_child_id :
        Spliced(replace(t1, replaced_id, replaced_child_id), found,
                t.store[replaced_id].color, replaced_child_id)))

\* delete, lines 451-470: the in-order successor is spliced out in place of found
delete_successor(t, found, replaced_id) ==
    With(set_key(t, found, t.store[replaced_id].key), LAMBDA t1 :
    With(get_right(t1, replaced_id), LAMBDA replaced_child_id :
        Spliced(replace(t1, replaced_id, replaced_child_id), replaced_id,
                t.store[replaced_id].color, replaced_child_id)))

\* delete, lines 445-477: the NodeColor `deleted` (the record to remove, with the
\* color that decides the fixup) and `replaced`, the replacement position
delete_splice(t, found) ==
    With(get_if_one_child(t, found), LAMBDA one :
    IF one # NONE THEN Spliced(replace(t, found, one), found, t.store[found].color, one)
    ELSE With(tree_minimum(t, get_right(t, found)), LAMBDA replaced_id :
         IF replaced_id = DIVERGE
         THEN Spliced(Abort(t, "diverge"), found, t.store[found].color, NONE)
         ELSE IF replaced_id # NONE THEN delete_successor(t, found, replaced_id)
         ELSE Spliced(replace(t, found, NONE), found, t.store[found].color, NONE)))

Deleted(t, r) == [t |-> t, ret |-> r]

\* delete_fixup runs whatever the color of the removed record
delete_finish_always_fixup(d) ==
    With(Bind(delete_fixup(d.t, d.replaced), LAMBDA t1 : dec_len(t1)), LAMBDA t2 :
        IF t2.fail # "ok" THEN Deleted(t2, NONE)
        ELSE Deleted(remove(t2, d.id), IF Has(t2, d.id) THEN t2.store[d.id].id ELSE NONE))

\* delete, lines 478-482
delete_finish(d) ==
    With(Bind(IF d.color = BLACK THEN delete_fixup(d.t, d.replaced) ELSE d.t,
              LAMBDA t1 : dec_len(t1)), LAMBDA t2 :
        IF t2.fail # "ok" THEN Deleted(t2, NONE)
        ELSE Deleted(remove(t2, d.id), IF Has(t2, d.id) THEN t2.store[d.id].id ELSE NONE))

\* the length is decremented before the miss is noticed
delete_counts_miss(t, value) ==
    With(find_node(t, value), LAMBDA found :
    IF found = DIVERGE THEN Deleted(Abort(t, "diverge"), NONE)
    ELSE IF found = NONE THEN Deleted(dec_len(t), NONE)
    ELSE With(delete_splice(t, found), LAMBDA d :
         IF d.t.fail # "ok" THEN Deleted(d.t, NONE) ELSE delete_finish(d)))

\* [t, ret]: ret is the Option<U> that delete returns
delete(t, value) ==
    With(find_node(t, value), LAMBDA found :
    IF found = DIVERGE THEN Deleted(Abort(t, "diverge"), NONE)
    ELSE IF found = NONE THEN Deleted(t, NONE)
    ELSE With(delete_splice(t, found), LAMBDA d :
         IF d.t.fail # "ok" THEN Deleted(d.t, NONE) ELSE delete_finish(d)))

\* ---------------------------------------------------------------- state machine
\* RedBlackTree::new() with RepoNode::new(); op, arg, ret and visited record the
\* last call and what it handed back (visited: the identifiers walk_in_order
\* passed to its callback); ins[k] counts the insert(k) calls, del[k] the
\* delete(k) calls that found k, and pre is the state the last call started in.
Init ==
    /\ id_counter = 0
    /\ root = NONE
    /\ length = 0
    /\ repo = EmptyStore
    /\ fail = "ok"
    /\ op = "new"
    /\ arg = NONE
    /\ ret = NONE
    /\ visited = <<>>
    /\ ins = [k \in Keys |-> 0]
    /\ del = [k \in Keys |-> 0]
    /\ pre = Cur

Commit(t) ==
    /\ id_counter' = t.id_counter
    /\ root' = t.root
    /\ length' = t.length
    /\ repo' = t.store
    /\ fail' = t.fail

\* the state variables hold the tree t
Commit0(t) ==
    /\ id_counter = t.id_counter
    /\ root = t.root
    /\ length = t.length
    /\ repo = t.store
    /\ fail = t.fail

DeleteResult(r, k) ==
    /\ Commit(r.t)
    /\ ret' = r.ret
    /\ del' = IF r.ret # NONE THEN [del EXCEPT ![k] = @ + 1] ELSE del

FindResult(r) ==
    /\ Commit(IF r.ret = DIVERGE THEN Abort(r.t, "diverge") ELSE r.t)
    /\ ret' = IF r.ret = DIVERGE THEN NONE ELSE r.ret

WalkResult(w) ==
    /\ visited' = w
    /\ fail' = IF Stopped(w) /\ w[Len(w)] = ABORT THEN "unwrap"
               ELSE IF Stopped(w) THEN "diverge"
               ELSE fail

Insert(k) ==
    /\ fail = "ok"
    /\ id_counter < MaxId
    /\ \E overflow_checks \in BOOLEAN : Commit(insert(Cur, k, overflow_checks))
    /\ pre' = Cur
    /\ op' = "insert"
    /\ arg' = k
    /\ ret' = NONE
    /\ visited' = <<>>
    /\ ins' = [ins EXCEPT ![k] = @ + 1]
    /\ del' = del

Delete(k) ==
    /\ fail = "ok"
    /\ DeleteResult(delete(Cur, k), k)
    /\ pre' = Cur
    /\ op' = "delete"
    /\ arg' = k
    /\ visited' = <<>>
    /\ ins' = ins

Find(k) ==
    /\ fail = "ok"
    /\ FindResult(find(Cur, k))
    /\ pre' = Cur
    /\ op' = "find"
    /\ arg' = k
    /\ visited' = <<>>
    /\ UNCHANGED <<ins, del>>

Walk ==
    /\ fail = "ok"
    /\ WalkResult(walk_in_order(Cur))
    /\ pre' = Cur
    /\ op' = "walk"
    /\ arg' = NONE
    /\ ret' = NONE
    /\ UNCHANGED <<id_counter, root, length, repo, ins, del>>

Next ==
    \/ \E k \in Keys : Insert(k)
    \/ \E k \in Keys : Delete(k)
    \/ \E k \in Keys : Find(k)
    \/ Walk

Spec == Init /\ [][Next]_vars

RECURSIVE SumOver(_, _)
SumOver(f, S) ==
    IF S = {} THEN 0
    ELSE LET x == CHOOSE y \in S : TRUE IN f[x] + SumOver(f, S \ {x})

\* the same insert call in a run that goes on until the id counter has passed
\* its largest value, the tree being kept small by the caller
InsertLive(k) ==
    /\ fail = "ok"
    /\ length < MaxLive
    /\ SumOver(ins, Keys) <= IdMax + 1
    /\ \E overflow_checks \in BOOLEAN : Commit(insert(Cur, k, overflow_checks))
    /\ pre' = Cur
    /\ op' = "insert"
    /\ arg' = k
    /\ ret' = NONE
    /\ visited' = <<>>
    /\ ins' = [ins EXCEPT ![k] = @ + 1]
    /\ del' = del

NextExhaust ==
    \/ \E k \in Keys : InsertLive(k)
    \/ \E k \in Keys : Delete(k)

SpecExhaust == Init /\ [][NextExhaust]_vars

\* RedBlackTree::new() over RepoNode::new()
EmptyTree ==
    [id_counter |-> 0, root |-> NONE, length |-> 0, store |-> EmptyStore, fail |-> "ok"]

\* the tree after insert was called with each key of seq in turn
RECURSIVE InsertAll(_, _)
InsertAll(t, seq) ==
    IF seq = <<>> THEN t ELSE InsertAll(insert(t, Head(seq), TRUE), Tail(seq))

Count(seq, k) == Cardinality({i \in 1..Len(seq) : seq[i] = k})

\* a caller that starts with these eight insert calls and then goes on freely
FarPrefix == <<1, 2, 1, 1, 2, 2, 2, 2>>

InitFar ==
    /\ Commit0(InsertAll(EmptyTree, FarPrefix))
    /\ op = "insert"
    /\ arg = FarPrefix[Len(FarPrefix)]
    /\ ret = NONE
    /\ visited = <<>>
    /\ ins = [k \in Keys |-> Count(FarPrefix, k)]
    /\ del = [k \in Keys |-> 0]
    /\ pre = InsertAll(EmptyTree, SubSeq(FarPrefix, 1, Len(FarPrefix) - 1))

\* the same insert call, allowed until id_counter reaches MaxFarId
InsertFar(k) ==
    /\ fail = "ok"
    /\ id_counter < MaxFarId
    /\ \E overflow_checks \in BOOLEAN : Commit(insert(Cur, k, overflow_checks))
    /\ pre' = Cur
    /\ op' = "insert"
    /\ arg' = k
    /\ ret' = NONE
    /\ visited' = <<>>
    /\ ins' = [ins EXCEPT ![k] = @ + 1]
    /\ del' = del

NextFar ==
    \/ \E k \in Keys : InsertFar(k)
    \/ \E k \in Keys : Delete(k)

SpecFar == InitFar /\ [][NextFar]_vars

\* ---------------------------------------------------------------- observations
Ids == DOMAIN repo

IdsOf(w) == {w[i] : i \in 1..Len(w)}

KeysOf(t, w) == [i \in 1..Len(w) |-> IF Has(t, w[i]) THEN t.store[w[i]].key ELSE 0]

WalkIds == walk_in_order(Cur)
WalkKeys == KeysOf(Cur, WalkIds)

PreWalkIds == walk_in_order(pre)
PreWalkKeys == KeysOf(pre, PreWalkIds)

NonDecreasing(seq) == \A i \in 1..(Len(seq) - 1) : seq[i] <= seq[i + 1]

\* seq without its first occurrence of k
RemoveFirst(seq, k) ==
    IF Count(seq, k) = 0 THEN seq
    ELSE LET j == CHOOSE i \in 1..Len(seq) :
                    seq[i] = k /\ \A h \in 1..(i - 1) : seq[h] # k
         IN  [i \in 1..(Len(seq) - 1) |-> IF i < j THEN seq[i] ELSE seq[i + 1]]

Net == [k \in Keys |-> ins[k] - del[k]]

PreHasKey(k) == \E n \in DOMAIN pre.store : pre.store[n].key = k

\* the numbers of Black nodes on the paths from n down to an absent link
RECURSIVE BlackHeights(_, _)
BlackHeights(n, fuel) ==
    IF n = NONE \/ n \notin Ids \/ fuel = 0 THEN {0}
    ELSE LET b == IF repo[n].color = BLACK THEN 1 ELSE 0 IN
         {h + b : h \in BlackHeights(repo[n].left, fuel - 1)
                         \cup BlackHeights(repo[n].right, fuel - 1)}

\* the identifiers met from n through left and right links
RECURSIVE Reachable(_, _, _)
Reachable(t, n, fuel) ==
    IF n = NONE \/ fuel = 0 THEN {}
    ELSE IF ~Has(t, n) THEN {n}
    ELSE {n} \cup Reachable(t, t.store[n].left, fuel - 1)
             \cup Reachable(t, t.store[n].right, fuel - 1)

\* the numbers of nodes on the paths from n down to an absent link
RECURSIVE PathLengths(_, _, _)
PathLengths(t, n, fuel) ==
    IF n = NONE \/ fuel = 0 THEN {0}
    ELSE IF ~Has(t, n) THEN {0}
    ELSE {h + 1 : h \in PathLengths(t, t.store[n].left, fuel - 1)
                         \cup PathLengths(t, t.store[n].right, fuel - 1)}

Longest(S) == CHOOSE x \in S : \A y \in S : y <= x
Shortest(S) == CHOOSE x \in S : \A y \in S : x <= y

\* following the parent links from n ends at an absent parent
RECURSIVE ParentChainEnds(_, _, _)
ParentChainEnds(t, n, fuel) ==
    IF n = NONE \/ ~Has(t, n) THEN TRUE
    ELSE IF fuel = 0 THEN FALSE
    ELSE ParentChainEnds(t, t.store[n].parent, fuel - 1)

\* the only child of the record the last delete removed, as it was before the call
RemovedChild ==
    IF pre.store[ret].left # NONE THEN pre.store[ret].left ELSE pre.store[ret].right

\* the tree of the last insert call after the new record was linked and before
\* insert_fixup ran, and the new node's parent, grandparent and uncle in it
Linked == insert_link(add(get_id(pre, TRUE), pre.id_counter + 1, arg), pre.id_counter + 1)
LinkedParent == get_parent(Linked, pre.id_counter + 1)
LinkedGrandparent == get_parent(Linked, LinkedParent)
LinkedUncle == find_uncle(Linked, pre.id_counter + 1)

\* the last call was an insert whose first fixup step met a Red parent and a Red uncle
UncleRedCase ==
    /\ op = "insert"
    /\ LinkedParent # NONE
    /\ Linked.store[LinkedParent].color = RED
    /\ LinkedUncle >= 0
    /\ uncle_is_red(Linked, LinkedUncle)

\* BlackHeights in the tree t
RECURSIVE BlackHeightsOf(_, _, _)
BlackHeightsOf(t, n, fuel) ==
    IF n = NONE \/ fuel = 0 THEN {0}
    ELSE IF ~Has(t, n) THEN {0}
    ELSE LET b == IF t.store[n].color = BLACK THEN 1 ELSE 0 IN
         {h + b : h \in BlackHeightsOf(t, t.store[n].left, fuel - 1)
                         \cup BlackHeightsOf(t, t.store[n].right, fuel - 1)}

\* the last call was a delete that removed a Black record without children from
\* a non-root position of a tree with uniform black-height
BlackLeafRemoved ==
    /\ op = "delete"
    /\ ret # NONE
    /\ pre.store[ret].color = BLACK
    /\ pre.store[ret].left = NONE
    /\ pre.store[ret].right = NONE
    /\ pre.store[ret].parent # NONE
    /\ Cardinality(BlackHeightsOf(pre, pre.root, Fuel)) = 1

\* the node the last delete call found, and its in-order successor
Target == find_node(pre, arg)
Successor == tree_minimum(pre, get_right(pre, Target))

\* the last call was a delete whose target had two children
TwoChildDelete ==
    /\ op = "delete"
    /\ ret # NONE
    /\ pre.store[Target].left # NONE
    /\ pre.store[Target].right # NONE

\* the sibling of the position id, as delete_fixup resolves it (lines 511-526)
SiblingOf(t, id) ==
    node_color(t, IF node_is_child(t, id) = "Left"
                  THEN get_right(t, get_parent(t, id))
                  ELSE get_left(t, get_parent(t, id)))

\* the iterations of delete_fixup's loop that call delete_fixup_subtree, in
\* order: the tree each started from, its position, side and sibling
RECURSIVE FixupSteps(_, _, _, _)
FixupSteps(t, id, color, fuel) ==
    IF id = NONE \/ t.fail # "ok" \/ fuel = 0 \/ t.root = NONE THEN <<>>
    ELSE IF id = t.root \/ color # BLACK THEN <<>>
    ELSE IF node_is_child(t, id) \notin {"Left", "Right"} THEN <<>>
    ELSE LET side == node_is_child(t, id)
             r == delete_fixup_subtree(t, id, SiblingOf(t, id), side, side)
         IN  <<[t |-> t, node |-> id, side |-> side, parent |-> get_parent(t, id),
                sibling |-> SiblingOf(t, id)]>>
             \o FixupSteps(r.t, r.id, r.color, fuel - 1)

\* the tree of the last delete call when its record was spliced out
SplicedTree == delete_splice(pre, find_node(pre, arg))

\* the delete_fixup_subtree iterations of the last delete call
DeleteSteps ==
    IF op = "delete" /\ find_node(pre, arg) >= 0 /\ SplicedTree.color = BLACK
    THEN FixupSteps(SplicedTree.t, node_color(SplicedTree.t, SplicedTree.replaced).id,
                    node_color(SplicedTree.t, SplicedTree.replaced).color, Fuel)
    ELSE <<>>

\* a step's tree and sibling after the Red-sibling part (lines 548-564)
AfterRedSibling(s) ==
    fixup_red_sibling(s.t, s.node, s.parent, s.sibling, s.side, s.side)

\* <<near, far>> nephews of a step once the sibling is Black
Nephews(s) == childrens(AfterRedSibling(s).t, AfterRedSibling(s).sibling, s.side)

\* the step is in the terminal case: some nephew is Red
RedNephewCase(s) == any_colors(AfterRedSibling(s).t, Nephews(s), RED)

\* the terminal case with a far nephew that is present and Black
FarBlackCase(s) ==
    RedNephewCase(s) /\ any_colors(AfterRedSibling(s).t, <<Nephews(s)[2]>>, BLACK)

\* the link of node n on the given side, and on the other side
ChildOn(t, n, side) == IF side = "Left" THEN t.store[n].left ELSE t.store[n].right
ChildOff(t, n, side) == IF side = "Left" THEN t.store[n].right ELSE t.store[n].left

\* the step met a Red sibling
RedSiblingCase(s) == s.sibling.id # NONE /\ s.sibling.color = RED

\* ---------------------------------------------------------------- claims

\* C1: walk_in_order visits every live node exactly once, in non-decreasing key
\* order, after any sequence of insert and delete calls; after inserts only the
\* visited keys are the sorted multiset of the inserted keys.
C1_WalkInOrder ==
    /\ fail = "ok"
    /\ ~Stopped(WalkIds)
    /\ IdsOf(WalkIds) = Ids
    /\ Len(WalkIds) = Cardinality(Ids)
    /\ NonDecreasing(WalkKeys)
    /\ (\A k \in Keys : del[k] = 0) => \A k \in Keys : Count(WalkKeys, k) = ins[k]
    /\ op = "walk" => visited = WalkIds

C1_Witness ==
    /\ op = "walk"
    /\ Len(visited) >= 5
    /\ del[1] > 0
    /\ Count(WalkKeys, 1) >= 2
    /\ Count(WalkKeys, 2) >= 2

\* C2: after every completed insert or delete no Red node has a Red child.
C2_NoRedRed ==
    \A n \in Ids : repo[n].color = RED =>
        \A c \in {repo[n].left, repo[n].right} : c \in Ids => repo[c].color = BLACK

\* C3: after every completed insert or delete every path from the root to an
\* absent link passes through the same number of Black nodes.
C3_UniformBlackHeight == Cardinality(BlackHeights(root, Fuel)) = 1

\* C4: after every completed insert or delete the root, if present, is Black and
\* has no parent, also when delete removed the root or a rotation changed it.
C4_RootBlack ==
    root # NONE => root \in Ids /\ repo[root].color = BLACK /\ repo[root].parent = NONE

C4_Witness ==
    /\ op = "delete"
    /\ ret # NONE
    /\ ret = pre.root
    /\ root # NONE

\* C5: find(k) hands its callback a node with key k exactly when more insert(k)
\* calls than successful delete(k) calls have been made, and None otherwise.
C5_FindIffPresent ==
    /\ \A k \in Keys :
          IF ins[k] > del[k]
          THEN find_node(Cur, k) \in Ids /\ repo[find_node(Cur, k)].key = k
          ELSE find_node(Cur, k) = NONE
    /\ op = "find" => ret = find_node(Cur, arg)

C5_Witness ==
    /\ op = "find"
    /\ ret # NONE
    /\ del[arg] >= 1
    /\ \E k \in Keys : ins[k] > 0 /\ ins[k] = del[k]

\* C6: delete(k) of a present key removes exactly one occurrence of k from the
\* walk_in_order key sequence and leaves every other key's multiplicity alone.
C6_DeleteRemovesOne ==
    (op = "delete" /\ PreHasKey(arg)) =>
        /\ ret # NONE
        /\ WalkKeys = RemoveFirst(PreWalkKeys, arg)

C6_Witness ==
    /\ op = "delete"
    /\ PreHasKey(arg)
    /\ Count(PreWalkKeys, arg) >= 2
    /\ Len(PreWalkKeys) >= 5
    /\ ret # NONE
    /\ pre.store[find_node(pre, arg)].left # NONE
    /\ pre.store[find_node(pre, arg)].right # NONE

\* C7: delete(k) with no node holding k returns None and changes nothing: root,
\* length, the id counter, every record of the store and the walk are as before.
C7_DeleteMissNoChange ==
    (op = "delete" /\ ~PreHasKey(arg)) =>
        /\ ret = NONE
        /\ fail = "ok"
        /\ root = pre.root
        /\ length = pre.length
        /\ id_counter = pre.id_counter
        /\ repo = pre.store
        /\ WalkIds = PreWalkIds

C7_Witness ==
    /\ op = "delete"
    /\ ~PreHasKey(arg)
    /\ length >= 3
    /\ del[arg] > 0

\* C8: len() is the number of live nodes reachable from the root and the number
\* of insert calls minus the successful delete calls; it never goes below zero.
C8_LenIsLiveCount ==
    /\ length = Len(WalkIds)
    /\ length = SumOver(Net, Keys)
    /\ length >= 0
    /\ fail # "overflow"

C8_Witness ==
    /\ op = "delete"
    /\ ret # NONE
    /\ length >= 3
    /\ SumOver(del, Keys) >= 2

\* C9: once every inserted occurrence has been deleted again, in any order, the
\* tree is empty: no root, length 0, and walk_in_order visits nothing.
C9_DeleteAllEmpties ==
    (\A k \in Keys : ins[k] = del[k]) =>
        /\ root = NONE
        /\ length = 0
        /\ WalkIds = <<>>
        /\ op = "walk" => visited = <<>>

C9_Witness ==
    /\ op = "walk"
    /\ \A k \in Keys : ins[k] >= 2 /\ ins[k] = del[k]
    /\ id_counter >= 6

\* C10: after every completed insert or delete the root and every parent, left
\* and right field name a record of the store; the identifier delete removed is
\* named by nothing any more.
C10_NoDanglingId ==
    /\ root \in Ids \cup {NONE}
    /\ \A n \in Ids : /\ repo[n].parent \in Ids \cup {NONE}
                      /\ repo[n].left \in Ids \cup {NONE}
                      /\ repo[n].right \in Ids \cup {NONE}
    /\ (op = "delete" /\ ret # NONE) =>
          /\ ret \notin Ids
          /\ root # ret
          /\ \A n \in Ids : ret \notin {repo[n].parent, repo[n].left, repo[n].right}

C10_Witness ==
    /\ op = "delete"
    /\ ret # NONE
    /\ pre.store[ret].parent # NONE
    /\ pre.store[ret].left # NONE \/ pre.store[ret].right # NONE

\* C11: after every completed insert or delete the store holds exactly the
\* identifiers reachable from the root through left and right links, as many as
\* len(); a successful delete takes exactly one record, the one it returns, out
\* of the store.
C11_GarbageFree ==
    /\ Reachable(Cur, root, Fuel) = Ids
    /\ Cardinality(Ids) = length
    /\ (op = "delete" /\ ret # NONE) =>
          /\ ret \in DOMAIN pre.store
          /\ Ids = DOMAIN pre.store \ {ret}
    /\ (op = "delete" /\ ret = NONE) => Ids = DOMAIN pre.store

C11_Witness ==
    /\ op = "delete"
    /\ ret # NONE
    /\ ret # find_node(pre, arg)
    /\ Cardinality(Ids) >= 4
    /\ Reachable(Cur, root, Fuel) = Ids

\* C12: after any sequence of insert and delete calls the longest path from the
\* root to an absent link has at most twice as many nodes as the shortest one.
C12_LogarithmicDepth ==
    Longest(PathLengths(Cur, root, Fuel)) <= 2 * Shortest(PathLengths(Cur, root, Fuel))

\* C13: every insert(key) adds exactly one record, under the identifier that is
\* the previous id counter plus one and so above every identifier issued before,
\* raises len() by one, adds one occurrence of key to the walk_in_order keys, and
\* leaves the key and identifier of every existing node as they were.
C13_InsertAddsOne ==
    /\ \A n \in Ids : n <= id_counter /\ repo[n].id = n
    /\ id_counter >= pre.id_counter
    /\ op = "insert" =>
          /\ fail = "ok"
          /\ id_counter = pre.id_counter + 1
          /\ \A n \in DOMAIN pre.store : n < id_counter
          /\ Ids = DOMAIN pre.store \cup {id_counter}
          /\ repo[id_counter].key = arg
          /\ length = pre.length + 1
          /\ Len(WalkKeys) = Len(PreWalkKeys) + 1
          /\ RemoveFirst(WalkKeys, arg) = PreWalkKeys
          /\ \A n \in DOMAIN pre.store :
                repo[n].key = pre.store[n].key /\ repo[n].id = pre.store[n].id

C13_Witness ==
    /\ op = "insert"
    /\ SumOver(del, Keys) >= 2
    /\ Cardinality(Ids) >= 4
    /\ Count(PreWalkKeys, arg) >= 2
    /\ root # pre.root

\* C16: at the largest value of the id counter the next insert fails fatally:
\* the counter never wraps, and no insert issues an identifier that a live
\* record of the store already holds.
C16_ExhaustionIsFatal ==
    op = "insert" =>
        /\ pre.id_counter = IdMax => fail = "overflow"
        /\ fail = "ok" => id_counter > pre.id_counter /\ id_counter \notin DOMAIN pre.store

\* C14: after any sequence of inserts only, walk_in_order visits the nodes that
\* hold equal keys in ascending identifier order, that is in insertion order,
\* also after the rotations of insert-fixup; no insert is rejected.
C14_DuplicatesInInsertionOrder ==
    (\A k \in Keys : del[k] = 0) =>
        /\ Len(WalkIds) = id_counter
        /\ \A i, j \in 1..Len(WalkIds) :
              (i < j /\ WalkKeys[i] = WalkKeys[j]) => WalkIds[i] < WalkIds[j]

C14_Witness ==
    /\ \A k \in Keys : del[k] = 0
    /\ op = "insert"
    /\ \A k \in Keys : Count(WalkKeys, k) >= 3
    /\ root # 1

C17_Terminates ==
    /\ fail # "diverge"
    /\ ~Stopped(WalkIds)
    /\ \A k \in Keys : find_node(Cur, k) # DIVERGE
    /\ \A n \in Ids :
          /\ n \notin Reachable(Cur, repo[n].left, Fuel)
          /\ n \notin Reachable(Cur, repo[n].right, Fuel)
          /\ ParentChainEnds(Cur, n, Cardinality(Ids))

C17_Witness ==
    /\ op = "delete"
    /\ ret # NONE
    /\ pre.store[ret].color = BLACK
    /\ pre.store[ret].parent # NONE
    /\ RemovedChild # NONE
    /\ pre.store[RemovedChild].color = BLACK
    /\ fail = "ok"

\* C18: when insert-fixup meets a Red parent P and a Red uncle U, P and U become
\* Black, the grandparent G becomes Red and the loop goes on from G: if G's
\* parent is Red, a further iteration at G resolves that within the same insert
\* call, so G is not left Red under a Red parent.
C18_RecolorContinues ==
    UncleRedCase =>
        /\ repo[LinkedParent].color = BLACK
        /\ repo[LinkedUncle].color = BLACK
        /\ repo[LinkedGrandparent].color = RED =>
              \/ repo[LinkedGrandparent].parent \notin Ids
              \/ repo[repo[LinkedGrandparent].parent].color = BLACK

\* C19: when delete removes a Black node without children from a non-root
\* position (the target or the successor of a two-child target), delete-fixup
\* repairs the missing Black at the vacated position: black-height is uniform
\* again when delete returns.
C19_BlackLeafRepaired ==
    BlackLeafRemoved => Cardinality(BlackHeightsOf(Cur, root, Fuel)) = 1

\* C20: a delete whose target has two children overwrites the target's key with
\* the key of its in-order successor and removes the successor's record; the
\* target keeps its identifier, color, parent and left link.  The record a
\* delete removes has at most one child when it is spliced out, and no other
\* operation changes a node's key.
C20_KeyCopy ==
    /\ TwoChildDelete =>
          /\ ret = Successor
          /\ ret # Target
          /\ Target \in Ids
          /\ repo[Target].id = Target
          /\ repo[Target].key = pre.store[Successor].key
          /\ repo[Target].color = pre.store[Target].color
          /\ repo[Target].parent = pre.store[Target].parent
          /\ repo[Target].left = pre.store[Target].left
    /\ (op = "delete" /\ ret # NONE) =>
          pre.store[ret].left = NONE \/ pre.store[ret].right = NONE
    /\ \A n \in Ids \cap DOMAIN pre.store :
          repo[n].key # pre.store[n].key => TwoChildDelete /\ n = Target

\* C23: when delete-fixup meets a Red sibling S of the current position, S
\* becomes Black, the parent P becomes Red and is rotated toward the current
\* side (S takes P's place, P becomes S's child there), and S is recomputed as
\* P's child opposite the current position, the former near nephew, before
\* the nephews are inspected; the current position keeps P as its parent.
C23_RedSibling ==
    \A i \in 1..Len(DeleteSteps) :
        LET s == DeleteSteps[i]
            a == AfterRedSibling(s)
        IN  RedSiblingCase(s) =>
              /\ a.t.fail = "ok"
              /\ a.t.store[s.sibling.id].color = BLACK
              /\ a.t.store[s.parent].color = RED
              /\ a.t.store[s.parent].parent = s.sibling.id
              /\ ChildOn(a.t, s.sibling.id, s.side) = s.parent
              /\ a.t.store[s.sibling.id].parent = s.t.store[s.parent].parent
              /\ s.t.root = s.parent => a.t.root = s.sibling.id
              /\ a.sibling = ChildOff(a.t, s.parent, s.side)
              /\ a.sibling = ChildOn(s.t, s.sibling.id, s.side)
              /\ a.t.store[s.node].parent = s.parent
              /\ ChildOn(a.t, s.parent, s.side) = s.node

C23_Witness ==
    /\ fail = "ok"
    /\ \E i \in 1..Len(DeleteSteps) :
          /\ RedSiblingCase(DeleteSteps[i])
          /\ AfterRedSibling(DeleteSteps[i]).t.root = DeleteSteps[i].sibling.id

\* what one step's call of delete_fixup_subtree hands back: [t, id, color]
StepResult(s) == delete_fixup_subtree(s.t, s.node, s.sibling, s.side, s.side)

\* C22: in delete-fixup an absent nephew counts as Black.  When the near nephew
\* of S is Red and the far nephew is absent, the far-nephew-Black sub-case runs
\* (near nephew Black, S Red, rotation at S away from the current side, S
\* recomputed as the former near nephew) before the rotation at the parent, so
\* the former near nephew ends as the parent's parent with S as its child; when
\* both nephews are absent or Black, S becomes Red and the loop goes on from
\* the parent.
C22_AbsentNephewIsBlack ==
    \A i \in 1..Len(DeleteSteps) :
        LET s == DeleteSteps[i]
            a == AfterRedSibling(s)
            n == Nephews(s)
            r == StepResult(s)
        IN  /\ (Len(n) = 2 /\ RedNephewCase(s) /\ n[2] = NONE) =>
                  /\ r.t.store[s.parent].parent = n[1]
                  /\ r.t.store[a.sibling].parent = n[1]
                  /\ ChildOn(r.t, n[1], s.side) = s.parent
                  /\ ChildOff(r.t, n[1], s.side) = a.sibling
            /\ (Len(n) = 2 /\ ~RedNephewCase(s) /\ a.sibling # NONE) =>
                  /\ r.t.store[a.sibling].color = RED
                  /\ r.id = s.parent

\* the last call was a delete that removed a Red record
RedRemoved == op = "delete" /\ ret # NONE /\ pre.store[ret].color = RED

\* C24: when the record a delete removes is Red, no fixup runs: no color
\* changes and nothing is rotated.  Apart from the removed record, only the
\* link of the removed node's parent (or the root), the parent field of the
\* replacement and, for a target with two children, the target's key differ
\* from the state before the call.
C24_RedRemovedFrame ==
    RedRemoved =>
        /\ fail = "ok"
        /\ Ids = DOMAIN pre.store \ {ret}
        /\ root = IF pre.root = ret THEN RemovedChild ELSE pre.root
        /\ \A n \in Ids :
              /\ repo[n].id = pre.store[n].id
              /\ repo[n].color = pre.store[n].color
              /\ repo[n].key # pre.store[n].key => TwoChildDelete /\ n = Target
              /\ repo[n].parent = IF n = RemovedChild THEN pre.store[ret].parent
                                  ELSE pre.store[n].parent
              /\ repo[n].left = IF pre.store[n].left = ret THEN RemovedChild
                                ELSE pre.store[n].left
              /\ repo[n].right = IF pre.store[n].right = ret THEN RemovedChild
                                 ELSE pre.store[n].right

C24_Witness ==
    /\ RedRemoved
    /\ fail = "ok"
    /\ RemovedChild # NONE
    /\ pre.store[ret].parent # NONE

\* the last call was a delete that removed a Black record whose only child was Red
BlackWithRedChildRemoved ==
    /\ op = "delete"
    /\ ret # NONE
    /\ pre.store[ret].color = BLACK
    /\ (pre.store[ret].left = NONE) # (pre.store[ret].right = NONE)
    /\ pre.store[RemovedChild].color = RED

\* C25: when delete removes a Black node whose only child is Red, the child
\* takes the removed node's place (as the root when the removed node was the
\* root), becomes Black, and nothing is rotated: every other link and color
\* stays as it was.
C25_RedChildTakesPlace ==
    BlackWithRedChildRemoved =>
        /\ fail = "ok"
        /\ RemovedChild \in Ids
        /\ repo[RemovedChild].color = BLACK
        /\ repo[RemovedChild].parent = pre.store[ret].parent
        /\ repo[RemovedChild].left = pre.store[RemovedChild].left
        /\ repo[RemovedChild].right = pre.store[RemovedChild].right
        /\ root = IF pre.root = ret THEN RemovedChild ELSE pre.root
        /\ \A n \in Ids \ {RemovedChild} :
              /\ repo[n].color = pre.store[n].color
              /\ repo[n].parent = pre.store[n].parent
              /\ repo[n].left = IF pre.store[n].left = ret THEN RemovedChild
                                ELSE pre.store[n].left
              /\ repo[n].right = IF pre.store[n].right = ret THEN RemovedChild
                                 ELSE pre.store[n].right

\* a non-root Black node with a Red only child was removed
C25_Witness ==
    /\ BlackWithRedChildRemoved
    /\ fail = "ok"
    /\ pre.store[ret].parent # NONE
    /\ pre.root # RemovedChild

\* the parent, left and right links of every record of t
Links(t) == [n \in DOMAIN t.store |->
                <<t.store[n].parent, t.store[n].left, t.store[n].right>>]

\* the last call was an insert whose new node met a Red parent and an uncle
\* that is Black or absent
RotationCase ==
    /\ op = "insert"
    /\ LinkedParent # NONE
    /\ Linked.store[LinkedParent].color = RED
    /\ LinkedUncle # ABORT
    /\ ~uncle_is_red(Linked, LinkedUncle)

\* the side of the new node's parent under the grandparent
LinkedSide == node_is_child(Linked, LinkedParent)

\* the new node lies between its parent and its grandparent in key order
InnerGrandchild == node_is_child(Linked, pre.id_counter + 1) # LinkedSide

\* the node that ends in the grandparent's place
LinkedTop == IF InnerGrandchild THEN pre.id_counter + 1 ELSE LinkedParent

\* Linked after the rotation at the parent (inner grandchild only) and the
\* rotation at the grandparent away from the parent's side
Rotated ==
    rotate(IF InnerGrandchild THEN rotate(Linked, LinkedParent, LinkedSide) ELSE Linked,
           LinkedGrandparent, not_rotation(LinkedSide))

\* C26: when insert-fixup meets a Red parent P and an uncle that is Black or
\* absent, it rotates at P only for an inner grandchild and then at the
\* grandparent G away from P's side, and nothing else: the node that takes G's
\* place is Black with G as its Red child, and the loop ends.  No insert call
\* rotates more than twice: outside this case the links are those the new node
\* was linked with.
C26_AtMostTwoRotations ==
    /\ RotationCase =>
          /\ fail = "ok"
          /\ LinkedGrandparent # NONE
          /\ LinkedSide \in {"Left", "Right"}
          /\ Links(Cur) = Links(Rotated)
          /\ root = Rotated.root
          /\ repo[LinkedTop].color = BLACK
          /\ repo[LinkedGrandparent].color = RED
          /\ repo[LinkedGrandparent].parent = LinkedTop
          /\ ChildOff(Cur, LinkedTop, LinkedSide) = LinkedGrandparent
          /\ repo[LinkedTop].parent = Linked.store[LinkedGrandparent].parent
          /\ \A n \in Ids \ {LinkedTop, LinkedGrandparent} :
                repo[n].color = Linked.store[n].color
    /\ (op = "insert" /\ ~RotationCase) =>
          /\ fail = "ok"
          /\ Links(Cur) = Links(Linked)
          /\ root = Linked.root

\* an inner grandchild was inserted below a non-root grandparent: two rotations
C26_Witness ==
    /\ RotationCase
    /\ InnerGrandchild
    /\ fail = "ok"
    /\ Linked.store[LinkedGrandparent].parent # NONE

\* the sibling the terminal case hands to its last part: the former near
\* nephew when the rotation at S ran (lines 582-599), else S itself
RecomputedSibling(s) ==
    IF FarBlackCase(s) THEN Nephews(s)[1] ELSE AfterRedSibling(s).sibling

\* the far nephew of the recomputed sibling: S itself after the rotation at S
FarOfRecomputed(s) ==
    IF FarBlackCase(s) THEN AfterRedSibling(s).sibling ELSE Nephews(s)[2]

\* C21: in delete-fixup's terminal case (S Black, some nephew Red), after the
\* optional rotation at S, the recomputed S gets the parent's color, the parent
\* becomes Black, the far nephew of the recomputed S becomes Black, the parent
\* is rotated toward the current side and the loop ends; the far nephew is
\* recolored both when it was Red from the start and when the rotation at S
\* ran first.
C21_TerminalCase ==
    \A i \in 1..Len(DeleteSteps) :
        LET s == DeleteSteps[i]
            a == AfterRedSibling(s)
            r == StepResult(s)
        IN  (Len(Nephews(s)) = 2 /\ RedNephewCase(s)) =>
              /\ r.t.fail = "ok"
              /\ r.t.store[RecomputedSibling(s)].color = a.t.store[s.parent].color
              /\ r.t.store[s.parent].color = BLACK
              /\ FarOfRecomputed(s) # NONE => r.t.store[FarOfRecomputed(s)].color = BLACK
              /\ r.t.store[s.parent].parent = RecomputedSibling(s)
              /\ ChildOn(r.t, RecomputedSibling(s), s.side) = s.parent
              /\ r.id = r.t.root

\* the child of x that a rotation of x in direction dir lifts, and that child's
\* inner child
Lifted(x, dir) == ChildOff(Cur, x, dir)
InnerOf(x, dir) == IF Lifted(x, dir) \in Ids THEN ChildOn(Cur, Lifted(x, dir), dir) ELSE NONE

\* C27: rotate(x, Left) (resp. Right) on a node x whose right (resp. left)
\* child y exists makes y the parent of x in x's former position (the root
\* when x was the root), moves y's inner child to x, keeps the in-order
\* sequence of identifiers and keys, changes no color and no key, and writes
\* link fields only of x, y, y's former inner child and x's former parent.
C27_RotateFrame ==
    fail = "ok" =>
        \A x \in Ids : \A dir \in {"Left", "Right"} :
            LET y == Lifted(x, dir)
                inner == InnerOf(x, dir)
                p == repo[x].parent
                t == rotate(Cur, x, dir)
            IN  y # NONE =>
                  /\ t.fail = "ok"
                  /\ t.store[x].parent = y
                  /\ ChildOn(t, y, dir) = x
                  /\ t.store[y].parent = p
                  /\ t.root = IF root = x THEN y ELSE root
                  /\ p # NONE =>
                        /\ repo[p].left = x => t.store[p].left = y
                        /\ repo[p].right = x => t.store[p].right = y
                  /\ ChildOff(t, x, dir) = inner
                  /\ inner # NONE => t.store[inner].parent = x
                  /\ walk_in_order(t) = WalkIds
                  /\ KeysOf(t, walk_in_order(t)) = WalkKeys
                  /\ DOMAIN t.store = Ids
                  /\ t.id_counter = id_counter
                  /\ t.length = length
                  /\ \A n \in Ids :
                        /\ t.store[n].id = repo[n].id
                        /\ t.store[n].color = repo[n].color
                        /\ t.store[n].key = repo[n].key
                  /\ \A n \in Ids \ {x, y, inner, p} : Links(t)[n] = Links(Cur)[n]

\* the last insert rotated, and the tree has a node whose lifted child, that
\* child's inner child and parent are all present
C27_Witness ==
    /\ RotationCase
    /\ fail = "ok"
    /\ \E x \in Ids : \E dir \in {"Left", "Right"} :
          /\ Lifted(x, dir) # NONE
          /\ InnerOf(x, dir) # NONE
          /\ repo[x].parent # NONE

\* the identifiers the left and right links of n name
ChildrenOf(n) == {repo[n].left, repo[n].right} \ {NONE}

\* C28: after every completed insert or delete the links are mutually
\* consistent and form a tree: a node named by a left or right link is live and
\* names the linking node as its parent; every live node other than the root is
\* the left or right child of the live node its parent field names; no
\* identifier is the child of two nodes or both children of one; the root is
\* live and has no parent.
C28_LinksFormTree ==
    fail = "ok" =>
        /\ root # NONE => root \in Ids /\ repo[root].parent = NONE
        /\ root = NONE => Ids = {}
        /\ \A n \in Ids :
              /\ \A c \in ChildrenOf(n) : c \in Ids /\ repo[c].parent = n
              /\ repo[n].left # NONE => repo[n].left # repo[n].right
              /\ n # root =>
                    /\ repo[n].parent \in Ids
                    /\ n \in ChildrenOf(repo[n].parent)
        /\ \A m \in Ids : \A n \in Ids \ {m} : ChildrenOf(m) \cap ChildrenOf(n) = {}

\* a delete whose fixup rotated left a tree of at least four nodes
C28_Witness ==
    /\ fail = "ok"
    /\ op = "delete"
    /\ ret # NONE
    /\ \E i \in 1..Len(DeleteSteps) : RedNephewCase(DeleteSteps[i])
    /\ Cardinality(Ids) >= 4

\* C29: no sequence of insert, delete, find and walk_in_order calls from the
\* empty tree reaches a fail-fast abort: no unwrap() meets an absent value and
\* no unreachable!() is executed (nor does any other abort happen).
C29_NoAbort == fail = "ok"

\* a walk over at least four nodes after two successful deletes
C29_Witness ==
    /\ fail = "ok"
    /\ op = "walk"
    /\ Len(visited) >= 4
    /\ SumOver(del, Keys) >= 2

\* C30: a successful delete(k) returns the identifier of the record it removed
\* from the store: the node that held k when that node has at most one child,
\* and the in-order successor of that node when it has two children, in which
\* case the node that held k stays in the store under its old identifier.
C30_ReturnsRemovedId ==
    (op = "delete" /\ ret # NONE) =>
        /\ ret \in DOMAIN pre.store
        /\ pre.store[ret].id = ret
        /\ Ids = DOMAIN pre.store \ {ret}
        /\ Target \in DOMAIN pre.store
        /\ pre.store[Target].key = arg
        /\ (pre.store[Target].left = NONE \/ pre.store[Target].right = NONE) =>
              ret = Target
        /\ (pre.store[Target].left # NONE /\ pre.store[Target].right # NONE) =>
              /\ ret = Successor
              /\ ret # Target
              /\ Target \in Ids
              /\ repo[Target].id = Target

\* a two-child delete whose successor was not the target's own right child
C30_Witness ==
    /\ TwoChildDelete
    /\ fail = "ok"
    /\ Successor # pre.store[Target].right

====
